---- MODULE Spec2Model ----
(***************************************************************************)
(* Model of src/seo_tool.py: the Streamlit SEO research tool.  One run of  *)
(* main() is a small sequential process (pc) whose steps are separated by  *)
(* the network interactions it performs; a session is a sequence of runs   *)
(* sharing the st.cache_data cache of analyze_keywords.                    *)
(*                                                                         *)
(* Text is modelled as the sequence of tagged tokens that the spaCy        *)
(* pipeline (nlp) produces for it: a token is [text, pos].  The tagger is  *)
(* an external, deterministic function of the text, so a text and its      *)
(* tagging are identified.  Addresses are the naturals 1, 2, ... (the rank *)
(* of the address in the provider's answer).  Headings and internal links  *)
(* of a page are not modelled: no step of main() that the properties       *)
(* below speak about reads them.                                           *)
(*                                                                         *)
(* Line 122 of the source has an unbalanced "(" (the file does not         *)
(* compile as written).  The model takes the evident reading               *)
(*   score = matched / competitors * 100 if competitors > 0 else 0         *)
(* which every way of closing the parenthesis yields.                      *)
(***************************************************************************)
EXTENDS Integers, Sequences, FiniteSets, TLC

----------------------------------------------------------------------------
(* Bounds of the model *)

MaxUrls == 6
SessionUrls == 1
MaxRuns == 3

(* Constants of the program *)

SerpLimit == 5
TopN == 20
MissingLimit == 10
RecommendLimit == 10
InsightLimit == 3
NumTopics == 5
TopicTopn == 10

----------------------------------------------------------------------------
(* Generic helpers *)

Min(a, b) == IF a < b THEN a ELSE b

Range(s) == {s[i] : i \in DOMAIN s}

Take(s, n) == SubSeq(s, 1, Min(n, Len(s)))

RemoveAt(s, i) == SubSeq(s, 1, i - 1) \o SubSeq(s, i + 1, Len(s))

----------------------------------------------------------------------------
(* Texts: the tagged token sequences of the pages and drafts used as inputs *)

Tok(text, pos) == [text |-> text, pos |-> pos]

EmptyText == <<>>

\* "Cats chase mice. Cats run fast."
CatsPage ==
  << Tok("Cats", "NOUN"), Tok("chase", "VERB"), Tok("mice", "NOUN"), Tok(".", "PUNCT"),
     Tok("Cats", "NOUN"), Tok("run", "VERB"), Tok("fast", "ADV"), Tok(".", "PUNCT") >>

\* the same address after its content changed: "Dogs chase mice. Dogs run fast."
CatsPageV2 ==
  << Tok("Dogs", "NOUN"), Tok("chase", "VERB"), Tok("mice", "NOUN"), Tok(".", "PUNCT"),
     Tok("Dogs", "NOUN"), Tok("run", "VERB"), Tok("fast", "ADV"), Tok(".", "PUNCT") >>

\* twelve distinct nouns, n03 three times and n12 twice
BigPage ==
  << Tok("n01", "NOUN"), Tok("n02", "NOUN"), Tok("n03", "NOUN"), Tok("n04", "NOUN"),
     Tok("n05", "NOUN"), Tok("n06", "NOUN"), Tok("the", "DET"),  Tok("n07", "NOUN"),
     Tok("n08", "NOUN"), Tok("n09", "NOUN"), Tok("n10", "NOUN"), Tok("n11", "NOUN"),
     Tok("n12", "NOUN"), Tok("n12", "NOUN"), Tok("n03", "NOUN"), Tok("n03", "NOUN") >>

\* five verbs and five capitalised proper nouns, interleaved, "mice" once more
BigPage2 ==
  << Tok("v01", "VERB"), Tok("P01", "PROPN"), Tok("v02", "VERB"), Tok("P02", "PROPN"),
     Tok("v03", "VERB"), Tok("P03", "PROPN"), Tok("v04", "VERB"), Tok("P04", "PROPN"),
     Tok("v05", "VERB"), Tok("P05", "PROPN"), Tok("mice", "NOUN"), Tok("P05", "PROPN") >>

\* words, but no noun, proper noun or verb
StopPage == << Tok("the", "DET"), Tok("of", "ADP") >>

\* a page without any paragraph: content == ""
EmptyPage == EmptyText

ExtraPage == << Tok("extra", "NOUN"), Tok("guide", "NOUN") >>

\* "My cat runs after mice in the yard."
Draft1 ==
  << Tok("My", "PRON"), Tok("cat", "NOUN"), Tok("runs", "VERB"), Tok("after", "ADP"),
     Tok("mice", "NOUN"), Tok("in", "ADP"), Tok("the", "DET"), Tok("yard", "NOUN"),
     Tok(".", "PUNCT") >>

Draft2 ==
  << Tok("Cats", "PROPN"), Tok("n01", "NOUN"), Tok("n03", "NOUN"), Tok("P02", "PROPN"),
     Tok("chase", "NOUN"), Tok("run", "NOUN"), Tok("mice", "NOUN"), Tok("n01", "NOUN") >>

Keywords == {"", "seo"}

Drafts == {EmptyText, Draft1, Draft2}

\* The web: the contents an address can have when it is fetched
Versions(url) ==
  IF url = 1 THEN {CatsPage, CatsPageV2}
  ELSE IF url = 2 THEN {BigPage}
  ELSE IF url = 3 THEN {BigPage2}
  ELSE IF url = 4 THEN {EmptyPage}
  ELSE IF url = 5 THEN {StopPage}
  ELSE {ExtraPage}

----------------------------------------------------------------------------
(* str.lower() on the words of the texts above *)

UpperToLower ==
  ("Cats" :> "cats") @@ ("Dogs" :> "dogs") @@ ("My" :> "my") @@
  ("P01" :> "p01") @@ ("P02" :> "p02") @@ ("P03" :> "p03") @@
  ("P04" :> "p04") @@ ("P05" :> "p05")

Lower(text) == IF text \in DOMAIN UpperToLower THEN UpperToLower[text] ELSE text

(* Hash of a string under the interpreter's per-process hash seed.  Python *)
(* iterates a set of strings in the order of their hash slots, which is    *)
(* fixed within one process and differs between processes.                 *)
Vocab ==
  << "cats", "dogs", "mice", "chase", "run", "fast", "my", "cat", "runs", "after",
     "in", "the", "yard", "of", "extra", "guide", ".",
     "n01", "n02", "n03", "n04", "n05", "n06", "n07", "n08", "n09", "n10", "n11", "n12",
     "v01", "v02", "v03", "v04", "v05", "p01", "p02", "p03", "p04", "p05" >>

HashSeeds == {1, 3, 17}

Code(term) == CHOOSE i \in DOMAIN Vocab : Vocab[i] = term

Hash(term, seed) == (Code(term) * seed) % 41

RECURSIVE SetOrder(_, _)
\* list(a_set): the elements in the order of their hash slots
SetOrder(S, seed) ==
  IF S = {} THEN <<>>
  ELSE LET x == CHOOSE y \in S : \A z \in S : Hash(y, seed) <= Hash(z, seed)
       IN  <<x>> \o SetOrder(S \ {x}, seed)

----------------------------------------------------------------------------
(* analyze_keywords: the keyword profile of a list of extracted pages *)

Page(url, content) == [url |-> url, content |-> content]

RECURSIVE AllContent(_)
\* " ".join([c["content"] for c in top_contents if c])
AllContent(top_contents) ==
  IF top_contents = <<>> THEN EmptyText
  ELSE top_contents[1].content \o AllContent(Tail(top_contents))

LowerTexts(tokens) == [i \in DOMAIN tokens |-> Lower(tokens[i].text)]

\* [token.text.lower() for token in doc if token.pos_ in ["NOUN", "PROPN"]]
Nouns(doc) == LowerTexts(SelectSeq(doc, LAMBDA t : t.pos \in {"NOUN", "PROPN"}))

\* [token.text.lower() for token in doc if token.pos_ == "VERB"]
Verbs(doc) == LowerTexts(SelectSeq(doc, LAMBDA t : t.pos = "VERB"))

RECURSIVE Distinct(_)
\* the keys of a Counter / dict built from a list: first-insertion order
Distinct(s) ==
  IF s = <<>> THEN <<>>
  ELSE LET r == Distinct(SubSeq(s, 1, Len(s) - 1))
           x == s[Len(s)]
       IN  IF x \in Range(r) THEN r ELSE Append(r, x)

Count(x, s) == Cardinality({i \in DOMAIN s : s[i] = x})

\* Counter(words): (term, count) pairs in first-insertion order
Counter(words) ==
  LET keys == Distinct(words)
  IN  [i \in DOMAIN keys |-> <<keys[i], Count(keys[i], words)>>]

RECURSIVE SortByCount_LastFirst(_)
\* a variant whose sort is not stable: among equal counts the last comes first
SortByCount_LastFirst(items) ==
  IF items = <<>> THEN <<>>
  ELSE LET i == CHOOSE j \in DOMAIN items :
                  /\ \A k \in DOMAIN items : items[k][2] <= items[j][2]
                  /\ \A k \in (j + 1)..Len(items) : items[k][2] < items[j][2]
       IN  <<items[i]>> \o SortByCount_LastFirst(RemoveAt(items, i))

RECURSIVE SortByCount(_)
\* sorted(items, key=count, reverse=True): stable, as heapq.nlargest is
SortByCount(items) ==
  IF items = <<>> THEN <<>>
  ELSE LET i == CHOOSE j \in DOMAIN items :
                  /\ \A k \in DOMAIN items : items[k][2] <= items[j][2]
                  /\ \A k \in 1..(j - 1) : items[k][2] < items[j][2]
       IN  <<items[i]>> \o SortByCount(RemoveAt(items, i))

\* Counter.most_common(n)
MostCommon(items, n) == Take(SortByCount(items), n)

\* tfidf = Counter(nouns + verbs); tfidf.most_common(20)
TopTfidf(doc) == MostCommon(Counter(Nouns(doc) \o Verbs(doc)), TopN)

(* The gensim part.  texts are the lower-cased whitespace words of the     *)
(* ". "-separated segments; the Dictionary is their set of distinct words. *)
(* The model keeps the words of the tokens that are not punctuation.       *)
DictionaryWords(doc) ==
  Distinct(LowerTexts(SelectSeq(doc, LAMBDA t : t.pos # "PUNCT")))

(* LsiModel(corpus, id2word=dictionary, num_topics=5) over a dictionary    *)
(* with no terms raises inside the library (the decomposition of a matrix  *)
(* with zero rows); analyze_keywords has no handler, so the exception      *)
(* leaves analyze_keywords and main.                                       *)
LsiRaises(doc) == DictionaryWords(doc) = <<>>

(* [word[0] for word in lsi.show_topic(0, topn=10)] if lsi else []         *)
(* An LsiModel object is always truthy, so the else branch is dead.        *)
(* show_topic returns min(topn, number of terms) words of topic 0; which   *)
(* ones is decided by the decomposition's weights, which the model does    *)
(* not compute: it lists the dictionary's words in dictionary order.       *)
LsiKeywords(doc) == Take(DictionaryWords(doc), TopicTopn)

AnalyzeKeywordsRaises(top_contents) == LsiRaises(AllContent(top_contents))

\* the returned dict
AnalyzeKeywords(top_contents) ==
  LET doc == AllContent(top_contents)
  IN  [top_tfidf |-> TopTfidf(doc), lsi_keywords |-> LsiKeywords(doc)]

----------------------------------------------------------------------------
(* The content analysis of main(): score and keyword lists *)

\* user_keywords, line 119
UserKeywords(content) == Nouns(content)

\* competitor_keywords, line 120
CompetitorKeywords(data) == [i \in DOMAIN data.top_tfidf |-> data.top_tfidf[i][1]]

\* matched_keywords, line 121
MatchedKeywords(user, comp) == Range(user) \cap Range(comp)

\* a variant that counts the draft's keywords instead of the matched ones
Score_UserCount(user, comp) ==
  IF Cardinality(Range(comp)) > 0
  THEN [num |-> Cardinality(Range(user)) * 100, den |-> Cardinality(Range(comp))]
  ELSE [num |-> 0, den |-> 1]

(* score, line 122: a ratio, kept exact as numerator / denominator *)
Score(user, comp) ==
  IF Cardinality(Range(comp)) > 0
  THEN [num |-> Cardinality(MatchedKeywords(user, comp)) * 100,
        den |-> Cardinality(Range(comp))]
  ELSE [num |-> 0, den |-> 1]

\* a variant that forgets to subtract the draft's keywords
MissingKeywords_NoDifference(user, comp, seed) ==
  Take(SetOrder(Range(comp), seed), MissingLimit)

\* missing_keywords, line 134
MissingKeywords(user, comp, seed) ==
  Take(SetOrder(Range(comp) \ Range(user), seed), MissingLimit)

\* "Top Recommended Keywords", line 131
RecommendedKeywords(data) ==
  LET top == Take(data.top_tfidf, RecommendLimit)
  IN  [i \in DOMAIN top |-> top[i][1]]

\* "Competitor Insights", lines 139-143: address and content length (in tokens)
Insights(comps) ==
  LET first == Take(comps, InsightLimit)
  IN  [i \in DOMAIN first |-> [url |-> first[i].url, length |-> Len(first[i].content)]]

ContentAnalysis(data, content, comps, seed) ==
  LET user == UserKeywords(content)
      comp == CompetitorKeywords(data)
  IN  [score       |-> Score(user, comp),
       matched     |-> MatchedKeywords(user, comp),
       missing     |-> MissingKeywords(user, comp, seed),
       recommended |-> RecommendedKeywords(data),
       insights    |-> Insights(comps)]

----------------------------------------------------------------------------
(* The state *)

VARIABLES
  pc,             \* position of main(): the orchestrator's state
  keyword,        \* st.text_input
  user_content,   \* st.text_area
  serp_urls,      \* answer of get_serp_results
  outcomes,       \* what extract_page_data returned for serp_urls[:5], in order
  competitors,    \* the pages appended by the loop of lines 99-102
  keyword_data,   \* <<>> or <<the dict returned by analyze_keywords>>
  result,         \* <<>> or <<what lines 119-143 display>>
  messages,       \* st.warning / st.error texts displayed, in order
  reason,         \* why main() returned early ("" if it did not)
  netCalls,       \* requests.get calls made by this run
  providerError,  \* get_serp_results took its except branch in this run
  cacheHit,       \* analyze_keywords was answered from the cache in this run
  cache,          \* st.cache_data entries of analyze_keywords
  hashSeed,       \* the process's string hash seed
  runs,           \* number of the current run in the session
  history         \* inputs and results of the finished runs of the session

runVars == <<pc, keyword, user_content, serp_urls, outcomes, competitors,
             keyword_data, result, messages, reason, netCalls, providerError,
             cacheHit>>

vars == <<pc, keyword, user_content, serp_urls, outcomes, competitors,
          keyword_data, result, messages, reason, netCalls, providerError,
          cacheHit, cache, hashSeed, runs, history>>

Terminal == {"Done", "Failed", "Crashed"}

FreshRun ==
  /\ pc = "AwaitingInput"
  /\ keyword = ""
  /\ user_content = EmptyText
  /\ serp_urls = <<>>
  /\ outcomes = <<>>
  /\ competitors = <<>>
  /\ keyword_data = <<>>
  /\ result = <<>>
  /\ messages = <<>>
  /\ reason = ""
  /\ netCalls = 0
  /\ providerError = FALSE
  /\ cacheHit = FALSE

Init ==
  /\ FreshRun
  /\ cache = {}
  /\ hashSeed \in HashSeeds
  /\ runs = 1
  /\ history = {}

----------------------------------------------------------------------------
(* Steps of main() *)

\* a variant that requires both fields to be empty
InputMissing_Both(kw, uc) == kw = "" /\ uc = EmptyText

\* line 89: not keyword or not user_content
InputMissing(kw, uc) == kw = "" \/ uc = EmptyText

\* lines 88-91: the Analyze button with the two inputs
Analyze(kw, uc) ==
  /\ pc = "AwaitingInput"
  /\ keyword' = kw
  /\ user_content' = uc
  /\ IF InputMissing(kw, uc)
     THEN /\ pc' = "Failed"
          /\ reason' = "InputError"
          /\ messages' = Append(messages, "Please fill both fields!")
     ELSE /\ pc' = "FetchingCompetitors"
          /\ UNCHANGED <<reason, messages>>
  /\ UNCHANGED <<serp_urls, outcomes, competitors, keyword_data, result, netCalls,
                 providerError, cacheHit, cache, hashSeed, runs, history>>

\* what the provider can do: fail, or answer with n ranked addresses
SerpAnswers(limit) ==
  {[ok |-> FALSE, urls |-> <<>>]} \cup
  {[ok |-> TRUE, urls |-> [i \in 1..n |-> i]] : n \in 0..limit}

\* lines 15-27 and 95: get_serp_results returns [] after reporting an exception
GetSerpResults(limit) ==
  /\ pc = "FetchingCompetitors"
  /\ \E answer \in SerpAnswers(limit) :
       /\ serp_urls' = answer.urls
       /\ providerError' = ~answer.ok
       /\ messages' = IF answer.ok THEN messages
                      ELSE Append(messages, "Error fetching SERP results")
  /\ netCalls' = netCalls + 1
  /\ pc' = "ExtractingPages"
  /\ UNCHANGED <<keyword, user_content, outcomes, competitors, keyword_data, result,
                 reason, cacheHit, cache, hashSeed, runs, history>>

\* serp_urls[:5]
FirstResults(urls) == Take(urls, SerpLimit)

\* lines 29-58: None after a warning, or the page's data
ExtractOutcomes(url) == {<<>>} \cup {<<Page(url, c)>> : c \in Versions(url)}

\* lines 99-102: one iteration of the loop
ExtractPageData ==
  /\ pc = "ExtractingPages"
  /\ Len(outcomes) < Len(FirstResults(serp_urls))
  /\ \E data \in ExtractOutcomes(serp_urls[Len(outcomes) + 1]) :
       /\ outcomes' = Append(outcomes, data)
       /\ competitors' = competitors \o data
       /\ messages' = IF data = <<>> THEN Append(messages, "Couldn't scrape")
                      ELSE messages
  /\ netCalls' = netCalls + 1
  /\ UNCHANGED <<pc, keyword, user_content, serp_urls, keyword_data, result, reason,
                 providerError, cacheHit, cache, hashSeed, runs, history>>

\* a variant that tests for None instead of emptiness
NoCompetitors_IsNone(comps) == FALSE

\* line 104: not competitors
NoCompetitors(comps) == comps = <<>>

\* lines 104-106: the loop is over
CheckCompetitors ==
  /\ pc = "ExtractingPages"
  /\ Len(outcomes) = Len(FirstResults(serp_urls))
  /\ IF NoCompetitors(competitors)
     THEN /\ pc' = "Failed"
          /\ reason' = "EmptyCorpusError"
          /\ messages' = Append(messages, "No competitors data found!")
     ELSE /\ pc' = "BuildingProfile"
          /\ UNCHANGED <<reason, messages>>
  /\ UNCHANGED <<keyword, user_content, serp_urls, outcomes, competitors, keyword_data,
                 result, netCalls, providerError, cacheHit, cache, hashSeed, runs,
                 history>>

\* a variant that keys the cache on the addresses alone
CacheKey_UrlsOnly(top_contents) == [i \in DOMAIN top_contents |-> top_contents[i].url]

\* st.cache_data hashes the argument by value
CacheKey(top_contents) == top_contents

\* lines 60-79 and 109: the memoized call
BuildProfile ==
  /\ pc = "BuildingProfile"
  /\ LET hits == {e \in cache : e.key = CacheKey(competitors)}
     IN  IF hits # {}
         THEN /\ keyword_data' = <<(CHOOSE e \in hits : TRUE).value>>
              /\ cacheHit' = TRUE
              /\ pc' = "Scoring"
              /\ UNCHANGED cache
         ELSE IF AnalyzeKeywordsRaises(competitors)
         THEN /\ pc' = "Crashed"
              /\ UNCHANGED <<keyword_data, cacheHit, cache>>
         ELSE LET data == AnalyzeKeywords(competitors)
              IN  /\ keyword_data' = <<data>>
                  /\ cache' = cache \cup {[key |-> CacheKey(competitors), value |-> data]}
                  /\ pc' = "Scoring"
                  /\ UNCHANGED cacheHit
  /\ UNCHANGED <<keyword, user_content, serp_urls, outcomes, competitors, result,
                 messages, reason, netCalls, providerError, hashSeed, runs, history>>

\* lines 119-143
ScoreContent ==
  /\ pc = "Scoring"
  /\ result' = <<ContentAnalysis(keyword_data[1], user_content, competitors, hashSeed)>>
  /\ pc' = "Done"
  /\ UNCHANGED <<keyword, user_content, serp_urls, outcomes, competitors, keyword_data,
                 messages, reason, netCalls, providerError, cacheHit, cache, hashSeed,
                 runs, history>>

RunInputs == [keyword |-> keyword, user_content |-> user_content,
              serp_urls |-> serp_urls, outcomes |-> outcomes]

(* The script is run again in the same session: the per-run state starts   *)
(* afresh, the cache and the process's hash seed stay.                     *)
Rerun ==
  /\ pc \in Terminal
  /\ runs < MaxRuns
  /\ runs' = runs + 1
  /\ history' = IF pc = "Done"
                THEN history \cup {[inputs |-> RunInputs, result |-> result[1]]}
                ELSE history
  /\ pc' = "AwaitingInput"
  /\ keyword' = ""
  /\ user_content' = EmptyText
  /\ serp_urls' = <<>>
  /\ outcomes' = <<>>
  /\ competitors' = <<>>
  /\ keyword_data' = <<>>
  /\ result' = <<>>
  /\ messages' = <<>>
  /\ reason' = ""
  /\ netCalls' = 0
  /\ providerError' = FALSE
  /\ cacheHit' = FALSE
  /\ UNCHANGED <<cache, hashSeed>>

Next ==
  \/ \E kw \in Keywords, uc \in Drafts : Analyze(kw, uc)
  \/ GetSerpResults(MaxUrls)
  \/ ExtractPageData
  \/ CheckCompetitors
  \/ BuildProfile
  \/ ScoreContent

Spec == Init /\ [][Next]_vars

NextSession ==
  \/ \E kw \in Keywords, uc \in Drafts : Analyze(kw, uc)
  \/ GetSerpResults(SessionUrls)
  \/ ExtractPageData
  \/ CheckCompetitors
  \/ BuildProfile
  \/ ScoreContent
  \/ Rerun

SpecSession == Init /\ [][NextSession]_vars

----------------------------------------------------------------------------
(* Properties *)

CompetitorSet == Range(CompetitorKeywords(keyword_data[1]))

UserSet == Range(Nouns(user_content))

ValidInput == keyword # "" /\ user_content # EmptyText

RECURSIVE Successes(_)
\* the pages of a sequence of extraction outcomes, in order
Successes(outs) ==
  IF outs = <<>> THEN <<>> ELSE outs[1] \o Successes(Tail(outs))

FirstPos(x, s) == CHOOSE i \in DOMAIN s : s[i] = x /\ \A k \in 1..(i - 1) : s[k] # x

\* C1: whenever a run has scored, the score is a ratio in [0, 100] (computed
\* without dividing by zero), and it is exactly 0 when the set of competitor
\* keywords (the terms of top_tfidf) is empty.
C1_ScoreInRange ==
  pc = "Done" =>
    LET score == result[1].score
    IN  /\ score.den > 0
        /\ 0 <= score.num
        /\ score.num <= 100 * score.den
        /\ (CompetitorSet = {} => score.num = 0)

C1_Witness ==
  /\ pc = "Done"
  /\ CompetitorSet = {}
  /\ UserSet # {}

\* C2: in every result the matched and the missing terms are disjoint, and
\* when fewer than 10 competitor keywords are absent from the draft's
\* keywords, matched and missing together are exactly the competitor keywords.
C2_MatchedMissingPartition ==
  pc = "Done" =>
    LET matched == result[1].matched
        missing == Range(result[1].missing)
    IN  /\ matched \cap missing = {}
        /\ (Cardinality(CompetitorSet \ UserSet) < MissingLimit
              => matched \cup missing = CompetitorSet)

C2_Witness ==
  /\ pc = "Done"
  /\ result[1].matched # {}
  /\ result[1].missing # <<>>
  /\ Cardinality(CompetitorSet \ UserSet) < MissingLimit

\* C3: the missing terms are the competitor keywords that are not keywords of
\* the draft, in the ranked order of top_tfidf, cut to the first 10 of them.
C3_MissingInRankedOrder ==
  pc = "Done" =>
    result[1].missing =
      Take(SelectSeq(CompetitorKeywords(keyword_data[1]), LAMBDA t : t \notin UserSet),
           MissingLimit)

\* C4: once analysis was triggered with an empty keyword or an empty draft,
\* the run is in Failed with reason InputError, it has made no network call
\* (no provider answer, no page fetched) and it has produced no result.
C4_EmptyInputFailsBeforeNetwork ==
  (pc # "AwaitingInput" /\ (keyword = "" \/ user_content = EmptyText)) =>
    /\ pc = "Failed"
    /\ reason = "InputError"
    /\ netCalls = 0
    /\ serp_urls = <<>>
    /\ outcomes = <<>>
    /\ keyword_data = <<>>
    /\ result = <<>>

C4_Witness ==
  /\ pc = "Failed"
  /\ reason = "InputError"
  /\ keyword # ""
  /\ user_content = EmptyText

\* C5: with valid input, when the extraction loop is over and no page
\* survived it, the run is in Failed with reason EmptyCorpusError;
\* analyze_keywords was not called and nothing was scored.
C5_EmptyCorpusFails ==
  (/\ ValidInput
   /\ pc \notin {"AwaitingInput", "FetchingCompetitors", "ExtractingPages"}
   /\ \A i \in DOMAIN outcomes : outcomes[i] = <<>>) =>
    /\ pc = "Failed"
    /\ reason = "EmptyCorpusError"
    /\ keyword_data = <<>>
    /\ result = <<>>

C5_Witness ==
  /\ pc = "Failed"
  /\ reason = "EmptyCorpusError"
  /\ ~providerError
  /\ serp_urls = <<>>

\* C6: a page that fails extraction is never fatal: after the loop the
\* corpus is exactly the successfully extracted pages among the first 5
\* addresses, and a run in which at least one page was extracted ends in Done.
C6_ExtractionFailuresNotFatal ==
  /\ pc \in {"BuildingProfile", "Scoring", "Done", "Crashed"} =>
       /\ Len(outcomes) = Min(SerpLimit, Len(serp_urls))
       /\ competitors = Successes(outcomes)
  /\ (pc \in Terminal /\ \E i \in DOMAIN outcomes : outcomes[i] # <<>>) => pc = "Done"

\* C7: when the search-results provider errors, the run ends in Failed (not
\* in a crash) and its reason is UpstreamProviderError, not the
\* EmptyCorpusError of a run whose pages all failed extraction.
C7_ProviderErrorIsDistinctFailure ==
  (providerError /\ pc \in Terminal) =>
    /\ pc = "Failed"
    /\ reason = "UpstreamProviderError"

\* C8: when the corpus of the surviving pages has fewer distinct words than
\* the 5 requested topics (or none at all), building the profile does not
\* fault and the topic terms (lsi_keywords) are empty.
C8_DegenerateTopicInputHandled ==
  (/\ pc \in {"Scoring", "Done", "Crashed"}
   /\ Len(DictionaryWords(AllContent(competitors))) < NumTopics) =>
    /\ pc # "Crashed"
    /\ keyword_data[1].lsi_keywords = <<>>

\* C9 as stated: top_tfidf has at most 20 pairs, no term twice, counts are
\* descending, and terms with equal counts are in the order of their first
\* occurrence in the concatenated corpus text.
C9_TiesByTextPosition ==
  pc \in {"Scoring", "Done"} =>
    LET top  == keyword_data[1].top_tfidf
        text == LowerTexts(AllContent(competitors))
    IN  /\ Len(top) <= TopN
        /\ \A i, j \in DOMAIN top : i < j =>
             /\ top[i][1] # top[j][1]
             /\ \/ top[i][2] > top[j][2]
                \/ /\ top[i][2] = top[j][2]
                   /\ FirstPos(top[i][1], text) < FirstPos(top[j][1], text)

\* C9 as amended: top_tfidf has at most 20 pairs, no term twice, counts are
\* descending, and terms with equal counts are in the order of their first
\* occurrence in the list of the corpus's noun and proper-noun tokens
\* followed by its verb tokens.
C9_TiesByNounsThenVerbs ==
  pc \in {"Scoring", "Done"} =>
    LET top   == keyword_data[1].top_tfidf
        doc   == AllContent(competitors)
        words == Nouns(doc) \o Verbs(doc)
    IN  /\ Len(top) <= TopN
        /\ \A i, j \in DOMAIN top : i < j =>
             /\ top[i][1] # top[j][1]
             /\ \/ top[i][2] > top[j][2]
                \/ /\ top[i][2] = top[j][2]
                   /\ FirstPos(top[i][1], words) < FirstPos(top[j][1], words)

C9_Witness ==
  /\ pc = "Done"
  /\ Len(keyword_data[1].top_tfidf) = TopN
  /\ Cardinality(Range(Nouns(AllContent(competitors)) \o Verbs(AllContent(competitors)))) > TopN
  /\ LET top  == keyword_data[1].top_tfidf
         text == LowerTexts(AllContent(competitors))
     IN  \E i, j \in DOMAIN top :
           /\ i < j
           /\ top[i][2] = top[j][2]
           /\ FirstPos(top[j][1], text) < FirstPos(top[i][1], text)

\* C10: in a session, the result of every run is the result that the same
\* run computes without the cache, and a run whose inputs (keyword, draft,
\* addresses, page contents) equal those of an earlier run of the session
\* has the earlier run's result, the order of the missing terms included.
C10_MemoizationInvisible ==
  pc = "Done" =>
    /\ result[1] = ContentAnalysis(AnalyzeKeywords(competitors), user_content,
                                   competitors, hashSeed)
    /\ \A h \in history : h.inputs = RunInputs => h.result = result[1]

C10_Witness ==
  /\ pc = "Done"
  /\ cacheHit
  /\ Len(result[1].missing) > 1
  /\ \E h \in history : h.inputs = RunInputs
  /\ \E h \in history :
       /\ h.inputs.serp_urls = serp_urls
       /\ h.inputs.outcomes # outcomes
       /\ h.result # result[1]

====
